---- MODULE Spec2Model ----
(***************************************************************************)
(* Model of the crawl engine of scrap-api (src/main.py): class WebScraper  *)
(* and the three crawl loops built on it, WebScraper.crawl_website (batch, *)
(* used by /scrape and /scrape-all), generate_stream (/scrape-stream) and  *)
(* generate_unlimited_stream (/scrape-stream-unlimited).                   *)
(*                                                                         *)
(* A URL is the record of the components urlparse splits it into:          *)
(*   scheme  a string                                                      *)
(*   host    the netloc, a sequence of labels (<<"www","ex","com">>)       *)
(*   path    a sequence of one-character strings (<<"/","b">> is /b)       *)
(*   query   a sequence of <<key, value>> pairs, in the order written      *)
(*   frag    the fragment, "" when absent                                  *)
(* The ;params component of urlparse is empty in every URL of the model.   *)
(* Two URL strings are equal exactly when their records are equal.         *)
(***************************************************************************)
EXTENDS Integers, Sequences, FiniteSets, TLC

VARIABLES
    mode,           \* entry point: "batch", "stream", "unlimited" or "single"
    site,           \* the web site the transport talks to (a name of Sites)
    base_url,       \* WebScraper.base_url, the seed
    max_pages,      \* WebScraper.max_pages
    visited_urls,   \* WebScraper.visited_urls
    urls_to_visit,  \* the local list urls_to_visit of the running loop
    scraped_data,   \* scraped_data (batch) / streamed_results (streams)
    envelopes,      \* the SSE events yielded so far (streams)
    current_url,    \* the local current_url of the running iteration
    pc,             \* position of the entry point's code
    gets,           \* history: the URLs session.get was called with, in order
    claimed,        \* history: the URLs dequeued and not skipped, in order
    linkCalls,      \* history: the URLs extract_links was called for, in order
    consumer,       \* the consumer of the stream: "listening" or "gone"
    scrapers,       \* two requests served together: the WebScraper objects
    running,        \* two requests served together: the crawl loop of each
    oracle,         \* two requests served together: what the transport and
                    \* the set iteration do, fixed for the whole run
    result,         \* a function applied on its own: what it returned
    document        \* extract_content applied on its own: its html_content

vars == <<mode, site, base_url, max_pages, visited_urls, urls_to_visit,
          scraped_data, envelopes, current_url, pc, gets, claimed, linkCalls,
          consumer, scrapers, running, oracle, result, document>>

---------------------------------------------------------------------------
(* Bounds of the model.                                                    *)

\* largest page budget a bounded crawl is started with
MaxBudget == 2

\* the budget /scrape-all and /scrape-stream-unlimited construct the scraper with
UnlimitedBudget == 999999

\* scraped_count % 1000 == 0 triggers a progress event in the unlimited stream
ProgressEvery == 1000

\* longest query string (in key=value pairs) a URL function is applied to
MaxQuery == 2

\* most elements of a document that match a content selector (ExtractSpec)
MaxElements == 2

\* how often crawl_website is called again on one WebScraper (RestartSpec)
MaxCalls == 2

\* a stand-in for the budget of the unlimited entry points that is smaller
\* than a site of the model (ScaledSpec)
ScaledBudget == 2

---------------------------------------------------------------------------
(* Strings and URLs.                                                       *)

\* str.lower() on the strings the model uses
Lower(s) ==
    CASE s = "A" -> "a"
      [] s = "B" -> "b"
      [] s = "C" -> "c"
      [] s = "X" -> "x"
      [] s = "EX" -> "ex"
      [] s = "COM" -> "com"
      [] s = "WWW" -> "www"
      [] s = "HTTPS" -> "https"
      [] s = "REF" -> "ref"
      [] s = "ID" -> "id"
      [] OTHER -> s

LowerSeq(q) == [i \in 1..Len(q) |-> Lower(q[i])]

LowerQuery(q) == [i \in 1..Len(q) |-> <<Lower(q[i][1]), Lower(q[i][2])>>]

\* faulty variant: the URL is taken as it is written
LowerURL_AsWritten(u) == u

\* url.lower().strip(): every component of the URL string is lower-cased;
\* strip() removes nothing, a URL holding no whitespace
LowerURL(u) ==
    [scheme |-> Lower(u.scheme), host |-> LowerSeq(u.host),
     path |-> LowerSeq(u.path), query |-> LowerQuery(u.query),
     frag |-> Lower(u.frag)]

\* faulty variant: the trailing slashes are kept
RStripSlash_Keep(p) == p

\* str.rstrip('/') on a path
RECURSIVE RStripSlash(_)
RStripSlash(p) ==
    IF p # <<>> /\ p[Len(p)] = "/"
    THEN RStripSlash(SubSeq(p, 1, Len(p) - 1))
    ELSE p

\* urlparse raises ValueError on a netloc with an opening bracket that is
\* not closed (http://[ex.com/): the label "[ex" stands for such a netloc
UrlparseRaises(u) == \E i \in 1..Len(u.host) : u.host[i] = "[ex"

\* WebScraper.normalize_url: the lightweight form. urlparse lower-cases
\* the scheme; netloc, path and query are kept as written. When urlparse
\* raises, the URL is returned as it is.
normalize_url(u) ==
    IF UrlparseRaises(u) THEN u
    ELSE [scheme |-> Lower(u.scheme),
          host |-> u.host,
          path |-> IF u.path # <<"/">> THEN RStripSlash(u.path) ELSE u.path,
          query |-> u.query,
          frag |-> ""]

tracking_params ==
    {"utm_source", "utm_medium", "utm_campaign", "utm_content", "utm_term",
     "fbclid", "gclid", "ref", "source", "_ga", "_gl", "mc_cid", "mc_eid",
     "campaign", "medium", "content", "term", "msclkid", "wbraid", "gbraid"}

\* the keys of a query in order of first occurrence (the key order of the
\* dict parse_qs builds)
RECURSIVE KeyOrder(_)
KeyOrder(q) ==
    IF q = <<>> THEN <<>>
    ELSE LET rest == SelectSeq(Tail(q), LAMBDA p : p[1] # q[1][1])
         IN  <<q[1][1]>> \o KeyOrder(rest)

\* parse_qs(query): pairs with a blank value are dropped
\* (keep_blank_values is False), the others are grouped by key
parse_qs(q) ==
    LET kept == SelectSeq(q, LAMBDA p : p[2] # "")
        keys == KeyOrder(kept)
    IN  [i \in 1..Len(keys) |->
            <<keys[i], SelectSeq(kept, LAMBDA p : p[1] = keys[i])>>]

\* urlencode(params, doseq=True): key=value for every value of every key
RECURSIVE urlencode(_)
urlencode(groups) ==
    IF groups = <<>> THEN <<>>
    ELSE groups[1][2] \o urlencode(Tail(groups))

\* WebScraper.normalize_url_for_deduplication: the enhanced form. When
\* urlparse raises, the lower-cased URL is returned.
normalize_url_for_deduplication(u) ==
    LET parsed == LowerURL(u)
        query_params == parse_qs(parsed.query)
        filtered_params ==
            SelectSeq(query_params, LAMBDA g : Lower(g[1]) \notin tracking_params)
    IN  IF UrlparseRaises(parsed) THEN parsed
        ELSE [scheme |-> parsed.scheme,
              host |-> parsed.host,
              path |-> RStripSlash(parsed.path),
              query |-> urlencode(filtered_params),
              frag |-> ""]

\* WebScraper.is_duplicate_url
is_duplicate_url(u, visited) ==
    normalize_url_for_deduplication(u) \in visited

\* str.replace("www.", "") on a netloc: every label "www" that is followed
\* by a dot is removed
StripWww(h) ==
    LET body == IF h = <<>> THEN <<>> ELSE SubSeq(h, 1, Len(h) - 1)
        last == IF h = <<>> THEN <<>> ELSE <<h[Len(h)]>>
    IN  SelectSeq(body, LAMBDA l : l # "www") \o last

\* faulty variant: every URL is in scope
is_same_domain_Any(u, domain) == TRUE

\* WebScraper.is_same_domain, domain being WebScraper.domain; False when
\* urlparse raises
is_same_domain(u, domain) ==
    /\ ~UrlparseRaises(u)
    /\ \/ u.host = domain
       \/ u.host = <<"www">> \o domain
       \/ u.host = StripWww(domain)

---------------------------------------------------------------------------
(* The web the crawl runs on.                                              *)

Ex == <<"ex", "com">>

Url(host, path, query) ==
    [scheme |-> "https", host |-> host, path |-> path, query |-> query,
     frag |-> ""]

Root     == Url(Ex, <<"/">>, <<>>)                              \* https://ex.com/
RootBare == Url(Ex, <<>>, <<>>)                                 \* https://ex.com
PB       == Url(Ex, <<"/", "b">>, <<>>)                         \* https://ex.com/b
PBslash  == Url(Ex, <<"/", "b", "/">>, <<>>)                    \* https://ex.com/b/
PBtrack  == Url(Ex, <<"/", "b">>, << <<"utm_source", "x">> >>)  \* https://ex.com/b?utm_source=x
PBfrag   == [PB EXCEPT !.frag = "f"]                            \* https://ex.com/b#f
PC       == Url(Ex, <<"/", "c">>, <<>>)                         \* https://ex.com/c
PCup     == Url(Ex, <<"/", "C">>, <<>>)                         \* https://ex.com/C
PD       == Url(Ex, <<"/", "d">>, <<>>)                         \* https://ex.com/d
PE       == Url(Ex, <<"/", "e">>, <<>>)                         \* https://ex.com/e
PF       == Url(Ex, <<"/", "f">>, <<>>)                         \* https://ex.com/f
Other    == Url(<<"other", "com">>, <<"/", "x">>, <<>>)         \* https://other.com/x

\* An href of an anchor: kind "url" is an absolute URL (urljoin of an
\* absolute URL is that URL); the other kinds are the hrefs extract_links
\* discards before resolving them, with the URL urljoin would make of
\* them: mailto:x and tel:x stay as they are, #top on the seed's page is
\* the seed with that fragment.
Link(u)  == [kind |-> "url", url |-> u]
Mailto   == [kind |-> "mailto",
             url |-> [scheme |-> "mailto", host |-> <<>>, path |-> <<"x">>,
                      query |-> <<>>, frag |-> ""]]
Tel      == [kind |-> "tel",
             url |-> [scheme |-> "tel", host |-> <<>>, path |-> <<"x">>,
                      query |-> <<>>, frag |-> ""]]
HashOnly == [kind |-> "hash", url |-> [Root EXCEPT !.frag = "top"]]

\* The sites: for each URL the server knows, the hrefs of the anchors of
\* its page, in document order.
Sites ==
    [cycle |->
        (Root :> <<Link(PB), Link(PC)>>) @@
        (PB :> <<Link(Root)>>) @@
        (PC :> <<>>),
     track |->
        (Root :> <<Link(PBtrack), Link(PB), Mailto, Link(Other)>>) @@
        (PBtrack :> <<Link(Root)>>) @@
        (PB :> <<Link(RootBare), Link(PBfrag)>>) @@
        (RootBare :> <<Link(PBtrack), Link(PB), Mailto, Link(Other)>>),
     mixed |->
        (Root :> <<Link(PBslash), HashOnly, Link(PCup), Link(PC)>>) @@
        (PB :> <<Link(PC), Tel, Link(PB)>>) @@
        (PC :> <<Link(Root)>>) @@
        (PCup :> <<>>),
     deep |->
        (Root :> <<Link(PB), Link(PC)>>) @@
        (PB :> <<Link(PF)>>) @@
        (PC :> <<Link(PD)>>) @@
        (PD :> <<Link(PE), Link(PF)>>) @@
        (PE :> <<>>) @@
        (PF :> <<>>)]

SiteNames == DOMAIN Sites

\* response.text of a 200 text/html response for u, as the anchors in it
Body(s, u) == IF u \in DOMAIN Sites[s] THEN Sites[s][u] ELSE <<>>

\* What session.get can do: raise a requests RequestException
\* ("request"), raise another exception ("other"), or return a response
\* with a status code and a content-type that holds text/html or does not.
Resp(raises, status, html) == [raises |-> raises, status |-> status, html |-> html]

Responses ==
    {Resp("none", 200, TRUE), Resp("none", 200, FALSE), Resp("none", 201, TRUE),
     Resp("none", 404, TRUE), Resp("request", 0, FALSE), Resp("other", 0, FALSE)}

\* The URLs of each site that are served unreliably: a request for one of
\* them can end in any of Responses and the extraction of its page can
\* raise. Every other URL is answered 200 text/html with a page the
\* extraction copes with.
Flaky ==
    [cycle |-> {Root, PB, PC},
     track |-> {PB},
     mixed |-> {PB},
     deep  |-> {PB}]

\* what session.get(u) can do on site s
Serves(s, u) == IF u \in Flaky[s] THEN Responses ELSE {Resp("none", 200, TRUE)}

\* whether extract_content can raise on the page of u
ExtractionRaises(s, u) == IF u \in Flaky[s] THEN BOOLEAN ELSE {FALSE}

---------------------------------------------------------------------------
(* WebScraper: page records.                                               *)

\* A page record. The id (uuid4) and created_at fields are fresh on every
\* record and are left out.
Record(u, title, content) == [source_url |-> u, title |-> title, content |-> content]

\* the None a falsy page_data would be
NoRecord == [source_url |-> Root, title |-> "", content |-> "None"]

\* WebScraper.extract_content: the record on success, the error record
\* when anything in the extraction raises
extract_content(u, raises) ==
    IF raises
    THEN Record(u, "", "Error extracting content")
    ELSE Record(u, "Title", "Text")

\* faulty variant: a request that raises yields no record
scrape_page_NoneOnError(u, r, extractRaises) ==
    IF r.raises # "none"
    THEN NoRecord
    ELSE IF r.status >= 400 /\ r.status < 600
    THEN Record(u, "", "Request error")
    ELSE IF ~r.html
    THEN Record(u, "Non-HTML Content", "Skipped non-HTML content")
    ELSE extract_content(u, extractRaises)

\* WebScraper.scrape_page, r being what session.get does and extractRaises
\* whether the extraction raises. response.raise_for_status() raises an
\* HTTPError, a RequestException, for a status from 400 to 599.
scrape_page(u, r, extractRaises) ==
    IF r.raises = "request" \/ (r.raises = "none" /\ r.status >= 400 /\ r.status < 600)
    THEN Record(u, "", "Request error")
    ELSE IF r.raises = "other"
    THEN Record(u, "", "Unexpected error")
    ELSE IF ~r.html
    THEN Record(u, "Non-HTML Content", "Skipped non-HTML content")
    ELSE extract_content(u, extractRaises)

\* WebScraper.extract_links: the set of lightweight-normalized in-scope
\* links of a page that is_duplicate_url does not reject
extract_links(html_content, domain, visited) ==
    {normalize_url(html_content[i].url) :
        i \in {j \in 1..Len(html_content) :
                /\ html_content[j].kind = "url"
                /\ is_same_domain(html_content[j].url, domain)
                /\ ~is_duplicate_url(html_content[j].url, visited)}}

\* the orders in which `for link in new_links` can iterate a Python set
Orders(S) ==
    {o \in [1..Cardinality(S) -> S] :
        \A i, j \in 1..Cardinality(S) : i # j => o[i] # o[j]}

\* faulty variant: every link is appended
AppendNew_Unchecked(queue, order, visited) == queue \o order

\* for link in new_links: if link not in visited_urls and link not in
\* urls_to_visit: urls_to_visit.append(link)
RECURSIVE AppendNew(_, _, _)
AppendNew(queue, order, visited) ==
    IF order = <<>> THEN queue
    ELSE LET link == Head(order)
             q == IF link \notin visited /\ \A i \in 1..Len(queue) : queue[i] # link
                  THEN Append(queue, link)
                  ELSE queue
         IN  AppendNew(q, Tail(order), visited)

\* faulty variant: the head of the list is read but not removed
Pop_Peek(queue) == queue

\* faulty variant: pop() instead of pop(0), the last entry is removed
Pop_Last(queue) == SubSeq(queue, 1, Len(queue) - 1)

\* urls_to_visit.pop(0): what is left of the list
Pop(queue) == Tail(queue)

\* faulty variant: the URL is not remembered
MarkVisited_Forgotten(visited, key) == visited

\* visited_urls.add(key)
MarkVisited(visited, key) == visited \cup {key}

\* faulty variant: a transport-error record ends the crawl loop
CrawlWebsite_AfterScrape_StopsOnError(page_data) ==
    IF page_data.content \in {"Request error", "Unexpected error"} THEN "done"
    ELSE IF page_data # NoRecord THEN "links" ELSE "loop"

\* `if page_data:` in crawl_website: where the iteration goes after
\* scrape_page, to link discovery or, for a falsy page_data, back to the
\* loop test
CrawlWebsite_AfterScrape(page_data) ==
    IF page_data # NoRecord THEN "links" ELSE "loop"

\* `if page_data:` in the two generators: the page event is yielded, or,
\* for a falsy page_data, the iteration goes on to the pacing sleep
Generate_AfterScrape(page_data) ==
    IF page_data # NoRecord THEN "yield_page" ELSE "sleep"

\* the test of the link-discovery request: status 200 and text/html
LinksResponseOk(r) == r.raises = "none" /\ r.status = 200 /\ r.html

\* WebScraper.domain, the netloc of base_url
Domain == base_url.host

---------------------------------------------------------------------------
(* The state after the endpoint has validated the request: the scraper is  *)
(* constructed (visited_urls empty) and no code of the crawl has run.      *)

Modes == {"batch", "stream", "unlimited", "single"}

Budgets(m) ==
    CASE m = "batch" -> (1..MaxBudget) \cup {UnlimitedBudget}
      [] m = "stream" -> 1..MaxBudget
      [] m = "unlimited" -> {UnlimitedBudget}
      [] m = "single" -> {1}

Init ==
    /\ mode \in Modes
    /\ site \in SiteNames
    /\ base_url = Root
    /\ max_pages \in Budgets(mode)
    /\ visited_urls = {}
    /\ urls_to_visit = <<>>
    /\ scraped_data = <<>>
    /\ envelopes = <<>>
    /\ current_url = base_url
    /\ pc = "idle"
    /\ gets = <<>>
    /\ claimed = <<>>
    /\ linkCalls = <<>>
    /\ consumer = "listening"
    /\ scrapers = <<>>
    /\ running = <<>>
    /\ oracle = [down |-> {}, rank |-> <<>>]
    /\ result = <<>>
    /\ document = <<>>

\* faulty variant: the count is that of the pages before this one
Envelope_CountBefore(type, u, n) ==
    [type |-> type, url |-> u, count |-> IF n > 0 THEN n - 1 ELSE 0]

\* an SSE event: its type, the page's source_url (page events) and the
\* count it carries (progress.current of a page event, total_pages of
\* the complete event)
Envelope(type, u, n) == [type |-> type, url |-> u, count |-> n]

\* never changed after construction
Request == <<mode, site, base_url, max_pages>>

\* the state of two requests served together (PairSpec)
Pair == <<scrapers, running, oracle>>

\* what no statement of the crawl writes: the request and the consumer
Fixed == UNCHANGED <<Request, consumer, Pair, result, document>>

\* faulty variant: the loop runs on whether or not anyone consumes the
\* events (a crawl started as a background task)
Resumes_Always(c) == TRUE

\* A generator suspended at a yield or in the pacing sleep runs on only
\* while its consumer is there: a yield returns when the consumer asks
\* for the next event, and the task awaiting the sleep is the consumer's.
Resumes(c) == c = "listening"

---------------------------------------------------------------------------
(* WebScraper.crawl_website (batch).                                       *)

\* scraped_data = []; urls_to_visit = [self.normalize_url(self.base_url)]
CrawlWebsite_Begin ==
    /\ mode = "batch" /\ pc = "idle"
    /\ urls_to_visit' = <<normalize_url(base_url)>>
    /\ scraped_data' = <<>>
    /\ pc' = "loop"
    /\ UNCHANGED <<visited_urls, envelopes, current_url, gets, claimed, linkCalls>>
    /\ Fixed

\* while urls_to_visit and len(scraped_data) < self.max_pages
CrawlWebsite_Guard ==
    urls_to_visit # <<>> /\ Len(scraped_data) < max_pages

\* current_url = urls_to_visit.pop(0); if current_url is in visited_urls
\* the iteration ends (continue); otherwise it is marked visited,
\* page_data = scrape_page(current_url) and a truthy page_data is appended
CrawlWebsite_Dequeue ==
    /\ mode = "batch" /\ pc = "loop"
    /\ CrawlWebsite_Guard
    /\ LET u == Head(urls_to_visit)
       IN  /\ urls_to_visit' = Pop(urls_to_visit)
           /\ current_url' = u
           /\ IF u \in visited_urls
              THEN UNCHANGED <<visited_urls, scraped_data, pc, gets, claimed>>
              ELSE /\ visited_urls' = MarkVisited(visited_urls, u)
                   /\ gets' = Append(gets, u)
                   /\ claimed' = Append(claimed, u)
                   /\ \E r \in Serves(site, u), x \in ExtractionRaises(site, u) :
                         LET page_data == scrape_page(u, r, x)
                         IN  /\ scraped_data' =
                                    IF page_data # NoRecord
                                    THEN Append(scraped_data, page_data)
                                    ELSE scraped_data
                             /\ pc' = CrawlWebsite_AfterScrape(page_data)
    /\ UNCHANGED <<envelopes, linkCalls>>
    /\ Fixed

\* response = session.get(current_url); if it is 200 text/html, the links
\* of extract_links not visited and not queued are appended
CrawlWebsite_Links ==
    /\ mode = "batch" /\ pc = "links"
    /\ \E r \in Serves(site, current_url) :
          /\ gets' = Append(gets, current_url)
          /\ IF LinksResponseOk(r)
             THEN /\ linkCalls' = Append(linkCalls, current_url)
                  /\ \E order \in Orders(extract_links(Body(site, current_url),
                                                       Domain, visited_urls)) :
                        urls_to_visit' = AppendNew(urls_to_visit, order, visited_urls)
             ELSE UNCHANGED <<linkCalls, urls_to_visit>>
    /\ pc' = "loop"
    /\ UNCHANGED <<visited_urls, scraped_data, envelopes, current_url, claimed>>
    /\ Fixed

\* the loop ends; return scraped_data
CrawlWebsite_Return ==
    /\ mode = "batch" /\ pc = "loop"
    /\ ~CrawlWebsite_Guard
    /\ pc' = "done"
    /\ UNCHANGED <<visited_urls, urls_to_visit, scraped_data, envelopes,
                   current_url, gets, claimed, linkCalls>>
    /\ Fixed

\* A statement of the loop outside scrape_page and outside the try block
\* of the link discovery raises (a MemoryError in a list operation, say).
\* crawl_website has no handler: the exception leaves it, scraped_data
\* with it, and the endpoint answers with HTTPException 500.
CrawlWebsite_Fault ==
    /\ mode = "batch" /\ pc = "loop"
    /\ pc' = "http_500"
    /\ UNCHANGED <<visited_urls, urls_to_visit, scraped_data, envelopes,
                   current_url, gets, claimed, linkCalls>>
    /\ Fixed

\* The body of the answer of /scrape and /scrape-all: formatted_response,
\* one entry per record of scraped_data, when crawl_website has returned;
\* an HTTPException carries no records.
Returned ==
    IF mode = "batch" /\ pc = "done" THEN scraped_data ELSE <<>>

---------------------------------------------------------------------------
(* scrape_single_page, the handler of /scrape-single.                      *)

\* scraper = WebScraper(url, max_pages=1); page_data = scraper.scrape_page(url);
\* a page_data without content is answered with an HTTP error
ScrapeSinglePage ==
    /\ mode = "single" /\ pc = "idle"
    /\ \E r \in Serves(site, base_url), x \in ExtractionRaises(site, base_url) :
          LET page_data == scrape_page(base_url, r, x)
          IN  /\ gets' = Append(gets, base_url)
              /\ IF page_data # NoRecord /\ page_data.content # ""
                 THEN /\ scraped_data' = <<page_data>>
                      /\ pc' = "done"
                 ELSE /\ scraped_data' = scraped_data
                      /\ pc' = "http_error"
    /\ UNCHANGED <<visited_urls, urls_to_visit, envelopes, current_url,
                   claimed, linkCalls>>
    /\ Fixed

---------------------------------------------------------------------------
(* generate_stream, the generator of /scrape-stream.                       *)

\* yield the start event
GenerateStream_Start ==
    /\ mode = "stream" /\ pc = "idle"
    /\ envelopes' = Append(envelopes, Envelope("start", Root, 0))
    /\ pc' = "yield_start"
    /\ UNCHANGED <<visited_urls, urls_to_visit, scraped_data, current_url,
                   gets, claimed, linkCalls>>
    /\ Fixed

\* scraper = WebScraper(...); streamed_results = [];
\* urls_to_visit = [scraper.normalize_url(scraper.base_url)]
GenerateStream_Begin ==
    /\ mode = "stream" /\ pc = "yield_start"
    /\ Resumes(consumer)
    /\ visited_urls' = {}
    /\ urls_to_visit' = <<normalize_url(base_url)>>
    /\ scraped_data' = <<>>
    /\ pc' = "loop"
    /\ UNCHANGED <<envelopes, current_url, gets, claimed, linkCalls>>
    /\ Fixed

\* while urls_to_visit and len(streamed_results) < max_pages
GenerateStream_Guard ==
    urls_to_visit # <<>> /\ Len(scraped_data) < max_pages

\* current_url = urls_to_visit.pop(0); if it is in scraper.visited_urls the
\* iteration ends (continue); otherwise it is marked visited, scraped,
\* appended to streamed_results and the page event is yielded
GenerateStream_Dequeue ==
    /\ mode = "stream" /\ pc = "loop"
    /\ GenerateStream_Guard
    /\ LET u == Head(urls_to_visit)
           key == u
       IN  /\ urls_to_visit' = Pop(urls_to_visit)
           /\ current_url' = u
           /\ IF key \in visited_urls
              THEN UNCHANGED <<visited_urls, scraped_data, envelopes, pc, gets, claimed>>
              ELSE /\ visited_urls' = MarkVisited(visited_urls, key)
                   /\ gets' = Append(gets, u)
                   /\ claimed' = Append(claimed, u)
                   /\ \E r \in Serves(site, u), x \in ExtractionRaises(site, u) :
                         LET page_data == scrape_page(u, r, x)
                         IN  /\ IF page_data # NoRecord
                                THEN /\ scraped_data' = Append(scraped_data, page_data)
                                     /\ envelopes' = Append(envelopes,
                                           Envelope("page", u, Len(scraped_data) + 1))
                                ELSE UNCHANGED <<scraped_data, envelopes>>
                             /\ pc' = Generate_AfterScrape(page_data)
    /\ UNCHANGED linkCalls
    /\ Fixed

\* resumed after the page event: the link-discovery request
GenerateStream_Links ==
    /\ mode = "stream" /\ pc = "yield_page"
    /\ Resumes(consumer)
    /\ \E r \in Serves(site, current_url) :
          /\ gets' = Append(gets, current_url)
          /\ IF LinksResponseOk(r)
             THEN /\ linkCalls' = Append(linkCalls, current_url)
                  /\ \E order \in Orders(extract_links(Body(site, current_url),
                                                       Domain, visited_urls)) :
                        urls_to_visit' = AppendNew(urls_to_visit, order, visited_urls)
             ELSE UNCHANGED <<linkCalls, urls_to_visit>>
    /\ pc' = "sleep"
    /\ UNCHANGED <<visited_urls, scraped_data, envelopes, current_url, claimed>>
    /\ Fixed

\* await asyncio.sleep(0.2) returns
GenerateStream_Sleep ==
    /\ mode = "stream" /\ pc = "sleep"
    /\ Resumes(consumer)
    /\ pc' = "loop"
    /\ UNCHANGED <<visited_urls, urls_to_visit, scraped_data, envelopes,
                   current_url, gets, claimed, linkCalls>>
    /\ Fixed

\* faulty variant: the generator returns without the complete event
GenerateStream_Complete_Silent ==
    /\ mode = "stream" /\ pc = "loop"
    /\ ~GenerateStream_Guard
    /\ pc' = "done"
    /\ UNCHANGED <<visited_urls, urls_to_visit, scraped_data, envelopes,
                   current_url, gets, claimed, linkCalls>>
    /\ Fixed

\* A statement of the loop outside scrape_page and outside the try block
\* of the link discovery raises: `except Exception` yields the error event
\* and the generator ends.
GenerateStream_Fault ==
    /\ mode = "stream" /\ pc = "loop"
    /\ envelopes' = Append(envelopes, Envelope("error", Root, 0))
    /\ pc' = "aborted"
    /\ UNCHANGED <<visited_urls, urls_to_visit, scraped_data, current_url,
                   gets, claimed, linkCalls>>
    /\ Fixed

\* the loop ends; yield the complete event
GenerateStream_Complete ==
    /\ mode = "stream" /\ pc = "loop"
    /\ ~GenerateStream_Guard
    /\ envelopes' = Append(envelopes, Envelope("complete", Root, Len(scraped_data)))
    /\ pc' = "done"
    /\ UNCHANGED <<visited_urls, urls_to_visit, scraped_data, current_url,
                   gets, claimed, linkCalls>>
    /\ Fixed

---------------------------------------------------------------------------
(* generate_unlimited_stream, the generator of /scrape-stream-unlimited.   *)
(* scraped_count is len(streamed_results) throughout.                      *)

\* yield the start event
GenerateUnlimited_Start ==
    /\ mode = "unlimited" /\ pc = "idle"
    /\ envelopes' = Append(envelopes, Envelope("start", Root, 0))
    /\ pc' = "yield_start"
    /\ UNCHANGED <<visited_urls, urls_to_visit, scraped_data, current_url,
                   gets, claimed, linkCalls>>
    /\ Fixed

\* scraper = WebScraper(url, max_pages=999999); streamed_results = [];
\* urls_to_visit = [scraper.normalize_url(scraper.base_url)]
GenerateUnlimited_Begin ==
    /\ mode = "unlimited" /\ pc = "yield_start"
    /\ Resumes(consumer)
    /\ visited_urls' = {}
    /\ urls_to_visit' = <<normalize_url(base_url)>>
    /\ scraped_data' = <<>>
    /\ pc' = "loop"
    /\ UNCHANGED <<envelopes, current_url, gets, claimed, linkCalls>>
    /\ Fixed

\* while urls_to_visit
GenerateUnlimited_Guard == urls_to_visit # <<>>

\* current_url = urls_to_visit.pop(0); normalized_for_check is its enhanced
\* form; if that is in scraper.visited_urls the iteration ends (continue);
\* otherwise it is added to visited_urls, current_url is scraped, counted,
\* appended to streamed_results and the page event is yielded
GenerateUnlimited_Dequeue ==
    /\ mode = "unlimited" /\ pc = "loop"
    /\ GenerateUnlimited_Guard
    /\ LET u == Head(urls_to_visit)
           key == normalize_url_for_deduplication(u)
       IN  /\ urls_to_visit' = Pop(urls_to_visit)
           /\ current_url' = u
           /\ IF key \in visited_urls
              THEN UNCHANGED <<visited_urls, scraped_data, envelopes, pc, gets, claimed>>
              ELSE /\ visited_urls' = MarkVisited(visited_urls, key)
                   /\ gets' = Append(gets, u)
                   /\ claimed' = Append(claimed, u)
                   /\ \E r \in Serves(site, u), x \in ExtractionRaises(site, u) :
                         LET page_data == scrape_page(u, r, x)
                         IN  /\ IF page_data # NoRecord
                                THEN /\ scraped_data' = Append(scraped_data, page_data)
                                     /\ envelopes' = Append(envelopes,
                                           Envelope("page", u, Len(scraped_data) + 1))
                                ELSE UNCHANGED <<scraped_data, envelopes>>
                             /\ pc' = Generate_AfterScrape(page_data)
    /\ UNCHANGED linkCalls
    /\ Fixed

\* resumed after the page event: the link-discovery request
GenerateUnlimited_Links ==
    /\ mode = "unlimited" /\ pc = "yield_page"
    /\ Resumes(consumer)
    /\ \E r \in Serves(site, current_url) :
          /\ gets' = Append(gets, current_url)
          /\ IF LinksResponseOk(r)
             THEN /\ linkCalls' = Append(linkCalls, current_url)
                  /\ \E order \in Orders(extract_links(Body(site, current_url),
                                                       Domain, visited_urls)) :
                        urls_to_visit' = AppendNew(urls_to_visit, order, visited_urls)
             ELSE UNCHANGED <<linkCalls, urls_to_visit>>
    /\ pc' = "sleep"
    /\ UNCHANGED <<visited_urls, scraped_data, envelopes, current_url, claimed>>
    /\ Fixed

\* await asyncio.sleep(0.2) returns; every ProgressEvery pages a progress
\* event is yielded
GenerateUnlimited_Sleep ==
    /\ mode = "unlimited" /\ pc = "sleep"
    /\ Resumes(consumer)
    /\ envelopes' =
          IF Len(scraped_data) > 0 /\ Len(scraped_data) % ProgressEvery = 0
          THEN Append(envelopes, Envelope("progress", Root, Len(scraped_data)))
          ELSE envelopes
    /\ pc' = "loop"
    /\ UNCHANGED <<visited_urls, urls_to_visit, scraped_data, current_url,
                   gets, claimed, linkCalls>>
    /\ Fixed

\* A statement of the loop outside scrape_page and outside the try block
\* of the link discovery raises: `except Exception` yields the error event
\* and the generator ends.
GenerateUnlimited_Fault ==
    /\ mode = "unlimited" /\ pc = "loop"
    /\ envelopes' = Append(envelopes, Envelope("error", Root, 0))
    /\ pc' = "aborted"
    /\ UNCHANGED <<visited_urls, urls_to_visit, scraped_data, current_url,
                   gets, claimed, linkCalls>>
    /\ Fixed

\* the loop ends; yield the complete event
GenerateUnlimited_Complete ==
    /\ mode = "unlimited" /\ pc = "loop"
    /\ ~GenerateUnlimited_Guard
    /\ envelopes' = Append(envelopes, Envelope("complete", Root, Len(scraped_data)))
    /\ pc' = "done"
    /\ UNCHANGED <<visited_urls, urls_to_visit, scraped_data, current_url,
                   gets, claimed, linkCalls>>
    /\ Fixed

---------------------------------------------------------------------------
(* The consumer of a stream stops consuming: the generator is closed at    *)
(* the yield or cancelled at the await it is suspended in (GeneratorExit   *)
(* and CancelledError are not caught by `except Exception`), and none of   *)
(* its code runs afterwards.                                               *)

SuspensionPoints == {"yield_start", "yield_page", "sleep"}

\* the client of a running stream disconnects
ConsumerStops ==
    /\ mode \in {"stream", "unlimited"}
    /\ pc \in SuspensionPoints \cup {"loop"}
    /\ consumer = "listening"
    /\ consumer' = "gone"
    /\ UNCHANGED <<visited_urls, urls_to_visit, scraped_data, envelopes,
                   current_url, pc, gets, claimed, linkCalls>>
    /\ UNCHANGED <<Request, Pair, result, document>>

StreamCancel ==
    /\ mode \in {"stream", "unlimited"}
    /\ pc \in SuspensionPoints
    /\ ~Resumes(consumer)
    /\ pc' = "cancelled"
    /\ UNCHANGED <<visited_urls, urls_to_visit, scraped_data, envelopes,
                   current_url, gets, claimed, linkCalls>>
    /\ Fixed

---------------------------------------------------------------------------

Next ==
    \/ CrawlWebsite_Begin
    \/ CrawlWebsite_Dequeue
    \/ CrawlWebsite_Links
    \/ CrawlWebsite_Return
    \/ CrawlWebsite_Fault
    \/ ScrapeSinglePage
    \/ GenerateStream_Start
    \/ GenerateStream_Begin
    \/ GenerateStream_Dequeue
    \/ GenerateStream_Links
    \/ GenerateStream_Sleep
    \/ GenerateStream_Complete
    \/ GenerateStream_Fault
    \/ GenerateUnlimited_Start
    \/ GenerateUnlimited_Begin
    \/ GenerateUnlimited_Dequeue
    \/ GenerateUnlimited_Links
    \/ GenerateUnlimited_Sleep
    \/ GenerateUnlimited_Complete
    \/ GenerateUnlimited_Fault
    \/ ConsumerStops
    \/ StreamCancel

Spec == Init /\ [][Next]_vars

\* the steps of the code itself: every step but an engine fault and the
\* consumer's leaving, which may happen and need not
EngineStep ==
    \/ CrawlWebsite_Begin
    \/ CrawlWebsite_Dequeue
    \/ CrawlWebsite_Links
    \/ CrawlWebsite_Return
    \/ ScrapeSinglePage
    \/ GenerateStream_Start
    \/ GenerateStream_Begin
    \/ GenerateStream_Dequeue
    \/ GenerateStream_Links
    \/ GenerateStream_Sleep
    \/ GenerateStream_Complete
    \/ GenerateUnlimited_Start
    \/ GenerateUnlimited_Begin
    \/ GenerateUnlimited_Dequeue
    \/ GenerateUnlimited_Links
    \/ GenerateUnlimited_Sleep
    \/ GenerateUnlimited_Complete
    \/ StreamCancel

\* Every transport call returns and the interpreter keeps running the
\* loop: a step of the code that can be taken is eventually taken.
FairSpec == Init /\ [][Next]_vars /\ WF_vars(EngineStep)

---------------------------------------------------------------------------
(* The unlimited entry points on a site with more reachable pages than     *)
(* their budget: /scrape-all and /scrape-stream-unlimited with the         *)
(* constant 999999 scaled down to ScaledBudget. The loops are those above; *)
(* only the number the scraper is constructed with differs.                *)

ScaledInit ==
    /\ mode \in {"batch", "unlimited"}
    /\ site \in SiteNames
    /\ base_url = Root
    /\ max_pages = ScaledBudget
    /\ visited_urls = {}
    /\ urls_to_visit = <<>>
    /\ scraped_data = <<>>
    /\ envelopes = <<>>
    /\ current_url = base_url
    /\ pc = "idle"
    /\ gets = <<>>
    /\ claimed = <<>>
    /\ linkCalls = <<>>
    /\ consumer = "listening"
    /\ scrapers = <<>>
    /\ running = <<>>
    /\ oracle = [down |-> {}, rank |-> <<>>]
    /\ result = <<>>
    /\ document = <<>>

ScaledNext ==
    \/ CrawlWebsite_Begin
    \/ CrawlWebsite_Dequeue
    \/ CrawlWebsite_Links
    \/ CrawlWebsite_Return
    \/ CrawlWebsite_Fault
    \/ GenerateUnlimited_Start
    \/ GenerateUnlimited_Begin
    \/ GenerateUnlimited_Dequeue
    \/ GenerateUnlimited_Links
    \/ GenerateUnlimited_Sleep
    \/ GenerateUnlimited_Complete
    \/ GenerateUnlimited_Fault
    \/ ConsumerStops
    \/ StreamCancel

ScaledSpec == ScaledInit /\ [][ScaledNext]_vars

---------------------------------------------------------------------------
(* Two requests served together. Each endpoint constructs its own          *)
(* WebScraper (scraper = WebScraper(url, ...)), and a crawl loop reaches   *)
(* the visited set through that object. The transport and the iteration    *)
(* order of a set are fixed by an oracle, the same for both crawls: a URL  *)
(* of oracle.down answers every request with a connection error, every     *)
(* other URL with 200 text/html, and a set is iterated in the order of     *)
(* oracle.rank. A step is one iteration of a crawl's loop.                 *)

\* faulty variant: one scraper object serves every request
NewScraper_Shared(i) == 1

\* the scraper object the i-th request constructs: a new one each time
NewScraper(i) == i

\* WebScraper.__init__: self.visited_urls = set()
WebScraper == [visited_urls |-> {}]

\* the entry points that crawl, with the budgets they are started with
PairConfigs ==
    UNION {[mode : {m}, max_pages : Budgets(m)] : m \in {"batch", "stream", "unlimited"}}

RankUp == <<Root, RootBare, PB, PBtrack, PC, PCup, PD, PE, PF>>

Reverse(q) == [i \in 1..Len(q) |-> q[Len(q) + 1 - i]]

Oracles == [down : {{}, {PB}}, rank : {RankUp, Reverse(RankUp)}]

\* session.get(u) under the oracle
Answer(u) ==
    IF u \in oracle.down THEN Resp("request", 0, FALSE) ELSE Resp("none", 200, TRUE)

\* `for link in new_links` under the oracle
Ranked(S) == SelectSeq(oracle.rank, LAMBDA u : u \in S)

\* the loop test of the entry point
LoopGuard(c) ==
    /\ c.urls_to_visit # <<>>
    /\ c.mode = "unlimited" \/ Len(c.scraped_data) < c.max_pages

\* what the entry point looks up in visited_urls for a dequeued URL
VisitedKey(m, u) ==
    IF m = "unlimited" THEN normalize_url_for_deduplication(u) ELSE u

\* One iteration of the loop of crawl c, visited being the visited_urls of
\* its scraper: the crawl and the visited set after it.
Iteration(c, visited) ==
    LET u == Head(c.urls_to_visit)
        key == VisitedKey(c.mode, u)
        rest == Pop(c.urls_to_visit)
        marked == MarkVisited(visited, key)
        page_data == scrape_page(u, Answer(u), FALSE)
        new_links == extract_links(Body(site, u), Domain, marked)
    IN  IF key \in visited
        THEN [crawl |-> [c EXCEPT !.urls_to_visit = rest, !.steps = @ + 1],
              visited |-> visited]
        ELSE [crawl |-> [c EXCEPT
                  !.urls_to_visit =
                      IF LinksResponseOk(Answer(u))
                      THEN AppendNew(rest, Ranked(new_links), marked)
                      ELSE rest,
                  !.scraped_data = Append(@, page_data),
                  !.steps = @ + 1],
              visited |-> marked]

\* the crawl loop of a request before its first iteration
Started(cfg, i) ==
    [mode |-> cfg.mode, max_pages |-> cfg.max_pages, scraper |-> NewScraper(i),
     urls_to_visit |-> <<normalize_url(Root)>>, scraped_data |-> <<>>, steps |-> 0]

PairInit ==
    /\ mode = "pair"
    /\ site \in SiteNames
    /\ base_url = Root
    /\ max_pages = 1
    /\ visited_urls = {}
    /\ urls_to_visit = <<>>
    /\ scraped_data = <<>>
    /\ envelopes = <<>>
    /\ current_url = base_url
    /\ pc = "idle"
    /\ gets = <<>>
    /\ claimed = <<>>
    /\ linkCalls = <<>>
    /\ consumer = "listening"
    /\ scrapers = [r \in 1..2 |-> WebScraper]
    /\ \E a, b \in PairConfigs : running = <<Started(a, 1), Started(b, 2)>>
    /\ oracle \in Oracles
    /\ result = <<>>
    /\ document = <<>>

\* crawl i runs one iteration of its loop
PairStep ==
    \E i \in 1..2 :
        /\ LoopGuard(running[i])
        /\ LET ref == running[i].scraper
               after == Iteration(running[i], scrapers[ref].visited_urls)
           IN  /\ running' = [running EXCEPT ![i] = after.crawl]
               /\ scrapers' = [scrapers EXCEPT ![ref].visited_urls = after.visited]
        /\ UNCHANGED <<Request, consumer, oracle, visited_urls, urls_to_visit,
                       scraped_data, envelopes, current_url, pc, gets, claimed,
                       linkCalls, result, document>>

PairSpec == PairInit /\ [][PairStep]_vars

---------------------------------------------------------------------------
(* The URL functions of WebScraper applied on their own: a scraper is      *)
(* constructed for a seed (base_url) and one of normalize_url,             *)
(* normalize_url_for_deduplication and is_same_domain is called with a     *)
(* URL (current_url).                                                      *)

UrlHosts ==
    {Ex, <<"EX", "com">>, <<"www", "ex", "com">>, <<"api", "ex", "com">>,
     <<"api", "www", "ex", "com">>, <<"www", "www", "ex", "com">>,
     <<"other", "com">>, <<"[ex", "com">>}

SeedHosts ==
    {Ex, <<"www", "ex", "com">>, <<"api", "www", "ex", "com">>,
     <<"www", "www", "ex", "com">>}

UrlPaths ==
    {<<>>, <<"/">>, <<"/", "a">>, <<"/", "a", "/">>, <<"/", "A">>,
     <<"/", "a", "/", "/">>}

QueryPairs == {<<k, v>> : k \in {"id", "utm_source", "REF"}, v \in {"1", ""}}

\* id=1&page=2&id=3: a key that is repeated, another key between
RepeatedKey == << <<"id", "1">>, <<"page", "2">>, <<"id", "3">> >>

\* id=X: a value with an upper-case letter
CasedValue == << <<"id", "X">> >>

UrlQueries ==
    UNION {[1..n -> QueryPairs] : n \in 0..MaxQuery} \cup {RepeatedKey, CasedValue}

\* the URLs the functions are applied to
UrlInputs ==
    [scheme : {"https", "HTTPS"}, host : {Ex, <<"EX", "com">>, <<"[ex", "com">>},
     path : UrlPaths, query : UrlQueries, frag : {"", "f"}]

UrlInit ==
    /\ mode = "url"
    /\ site = "cycle"
    /\ \/ /\ base_url \in {Url(h, <<"/">>, <<>>) : h \in SeedHosts}
          /\ current_url \in {Url(h, <<"/", "a">>, <<>>) : h \in UrlHosts}
       \/ /\ base_url = Root
          /\ current_url \in UrlInputs
    /\ max_pages = 1
    /\ visited_urls = {}
    /\ urls_to_visit = <<>>
    /\ scraped_data = <<>>
    /\ envelopes = <<>>
    /\ pc = "idle"
    /\ gets = <<>>
    /\ claimed = <<>>
    /\ linkCalls = <<>>
    /\ consumer = "listening"
    /\ scrapers = <<>>
    /\ running = <<>>
    /\ oracle = [down |-> {}, rank |-> <<>>]
    /\ result = <<>>
    /\ document = <<>>

\* what a call of a URL function leaves as it is
UrlFixed ==
    UNCHANGED <<Request, Pair, consumer, visited_urls, urls_to_visit,
                scraped_data, envelopes, current_url, gets, claimed, linkCalls,
                document>>

Url_Normalize ==
    /\ mode = "url" /\ pc = "idle"
    /\ result' = normalize_url(current_url)
    /\ pc' = "normalize_url"
    /\ UrlFixed

Url_NormalizeForDeduplication ==
    /\ mode = "url" /\ pc = "idle"
    /\ result' = normalize_url_for_deduplication(current_url)
    /\ pc' = "normalize_url_for_deduplication"
    /\ UrlFixed

Url_IsSameDomain ==
    /\ mode = "url" /\ pc = "idle"
    /\ result' = is_same_domain(current_url, Domain)
    /\ pc' = "is_same_domain"
    /\ UrlFixed

UrlNext ==
    \/ Url_Normalize
    \/ Url_NormalizeForDeduplication
    \/ Url_IsSameDomain

UrlSpec == UrlInit /\ [][UrlNext]_vars

---------------------------------------------------------------------------
(* crawl_website called again on the WebScraper it has returned on. The    *)
(* object keeps visited_urls (set once, in __init__); scraped_data and     *)
(* urls_to_visit are locals of the call and start anew. The result holds,  *)
(* for every call that has returned, the list it returned and the number   *)
(* of transport requests made up to then.                                  *)

RestartInit ==
    /\ mode = "batch"
    /\ site \in SiteNames
    /\ base_url = Root
    /\ max_pages \in Budgets("batch")
    /\ visited_urls = {}
    /\ urls_to_visit = <<>>
    /\ scraped_data = <<>>
    /\ envelopes = <<>>
    /\ current_url = base_url
    /\ pc = "idle"
    /\ gets = <<>>
    /\ claimed = <<>>
    /\ linkCalls = <<>>
    /\ consumer = "listening"
    /\ scrapers = <<>>
    /\ running = <<>>
    /\ oracle = [down |-> {}, rank |-> <<>>]
    /\ result = <<>>
    /\ document = <<>>

\* the call has returned and crawl_website is called once more:
\* scraped_data = []; urls_to_visit = [self.normalize_url(self.base_url)]
CrawlWebsite_Again ==
    /\ mode = "batch" /\ pc = "done"
    /\ Len(result) < MaxCalls
    /\ result' = Append(result, [returned |-> scraped_data, requests |-> Len(gets)])
    /\ urls_to_visit' = <<normalize_url(base_url)>>
    /\ scraped_data' = <<>>
    /\ pc' = "loop"
    /\ UNCHANGED <<visited_urls, envelopes, current_url, gets, claimed, linkCalls>>
    /\ UNCHANGED <<Request, consumer, Pair, document>>

RestartNext ==
    \/ CrawlWebsite_Begin
    \/ CrawlWebsite_Dequeue
    \/ CrawlWebsite_Links
    \/ CrawlWebsite_Return
    \/ CrawlWebsite_Fault
    \/ CrawlWebsite_Again

RestartSpec == RestartInit /\ [][RestartNext]_vars

---------------------------------------------------------------------------
(* WebScraper.scrape_page applied on its own: one page (current_url) is    *)
(* scraped, the transport answering with any status a server can send.     *)

\* the status codes of the answers
Statuses == {200, 201, 204, 300, 304, 400, 404, 500, 599, 600}

\* what session.get can do, over all of Statuses
AnyResponse ==
    {Resp("none", st, h) : st \in Statuses, h \in BOOLEAN}
        \cup {Resp("request", 0, FALSE), Resp("other", 0, FALSE)}

PageInit ==
    /\ mode = "page"
    /\ site = "cycle"
    /\ base_url = Root
    /\ current_url \in {Root, RootBare, PB, PBtrack, PC, PCup, PD, PE, PF}
    /\ max_pages = 1
    /\ visited_urls = {}
    /\ urls_to_visit = <<>>
    /\ scraped_data = <<>>
    /\ envelopes = <<>>
    /\ pc = "idle"
    /\ gets = <<>>
    /\ claimed = <<>>
    /\ linkCalls = <<>>
    /\ consumer = "listening"
    /\ scrapers = <<>>
    /\ running = <<>>
    /\ oracle = [down |-> {}, rank |-> <<>>]
    /\ result = <<>>
    /\ document = <<>>

\* page_data = scraper.scrape_page(current_url); the result holds what the
\* transport did next to the record returned
Page_Scrape ==
    /\ mode = "page" /\ pc = "idle"
    /\ \E r \in AnyResponse, x \in BOOLEAN :
          result' = [response |-> r, page_data |-> scrape_page(current_url, r, x)]
    /\ gets' = Append(gets, current_url)
    /\ pc' = "scrape_page"
    /\ UNCHANGED <<Request, Pair, consumer, visited_urls, urls_to_visit,
                   scraped_data, envelopes, current_url, claimed, linkCalls,
                   document>>

PageNext == Page_Scrape

PageSpec == PageInit /\ [][PageNext]_vars

---------------------------------------------------------------------------
(* WebScraper.extract_content applied on its own: the content of the       *)
(* record it makes of a document. (The title is found separately, lines    *)
(* 157-170 and 191-198, and is left out.)                                  *)
(*                                                                         *)
(* A text is a sequence of words, each with a name and a length, that a    *)
(* single space separates. The text of an element is made of its text      *)
(* nodes: a node is a word with the whitespace before and after it, or,    *)
(* with length 0, whitespace only. A document is what extract_content sees *)
(* of the HTML once script, style, nav, header, footer and aside elements  *)
(* are removed (line 201):                                                 *)
(*   primary     length of the text trafilatura.extract returns, stripped  *)
(*               (0 when it returns None)                                  *)
(*   elements    the elements a content selector matches, document order   *)
(*   paragraphs  the <p> elements with their text, in document order       *)
(*   body        whether the document has a <body>                         *)

\* trafilatura's text is taken if it is longer than this
PrimaryThreshold == 50

\* the paragraphs are tried if the selector content is shorter than this
ParagraphsBelow == 100

\* a paragraph is taken if its text is longer than this
ParagraphMin == 20

\* the body text is taken if the content is shorter than this
BodyBelow == 50

content_selectors ==
    <<"main", "article", ".post-content", ".entry-content", ".content",
      ".elementor-widget-container", ".elementor-text-editor", ".post-body",
      ".article-content", ".page-content", "[role=main]", ".main-content",
      "#content">>

Node(lead, id, len, trail) == [lead |-> lead, id |-> id, len |-> len, trail |-> trail]

Word(id, len) == [id |-> id, len |-> len]

Element(sel, nodes) == [sel |-> sel, nodes |-> nodes]

\* len(text) of a text of words joined by single spaces
RECURSIVE TextLen(_)
TextLen(t) ==
    IF t = <<>> THEN 0
    ELSE IF Len(t) = 1 THEN t[1].len
    ELSE t[1].len + 1 + TextLen(Tail(t))

\* len(element.get_text()): every character of every text node
RECURSIVE RawLen(_)
RawLen(nodes) ==
    IF nodes = <<>> THEN 0
    ELSE nodes[1].lead + nodes[1].len + nodes[1].trail + RawLen(Tail(nodes))

\* len(element.get_text().strip()): the whitespace before the first word
\* and after the last word is not counted
StrippedLen(nodes) ==
    LET words == {i \in 1..Len(nodes) : nodes[i].len > 0}
    IN  IF words = {} THEN 0
        ELSE LET first == CHOOSE i \in words : \A j \in words : i <= j
                 last == CHOOSE i \in words : \A j \in words : j <= i
             IN  RawLen(SubSeq(nodes, first, last))
                     - nodes[first].lead - nodes[last].trail

\* element.get_text(separator=' ', strip=True): the stripped strings that
\* are not empty, joined by single spaces
GetText(nodes) ==
    LET strings == SelectSeq(nodes, LAMBDA n : n.len > 0)
    IN  [i \in 1..Len(strings) |-> Word(strings[i].id, strings[i].len)]

\* max(elements, key=lambda x: len(x.get_text())): the first of the
\* elements with the longest raw text
best_element(elements) ==
    LET longest == CHOOSE i \in 1..Len(elements) :
                      /\ \A j \in 1..Len(elements) :
                            RawLen(elements[j].nodes) <= RawLen(elements[i].nodes)
                      /\ \A j \in 1..(i - 1) :
                            RawLen(elements[j].nodes) < RawLen(elements[i].nodes)
    IN  elements[longest]

\* for selector in content_selectors: the content after the selectors
\* have been tried in order, content being the content before
RECURSIVE SelectorLoop(_, _, _)
SelectorLoop(selectors, doc, content) ==
    IF selectors = <<>> THEN content
    ELSE LET elements == SelectSeq(doc.elements, LAMBDA e : e.sel = Head(selectors))
         IN  IF elements = <<>>
             THEN SelectorLoop(Tail(selectors), doc, content)
             ELSE IF StrippedLen(best_element(elements).nodes) > TextLen(content)
             THEN SelectorLoop(Tail(selectors), doc,
                               GetText(best_element(elements).nodes))
             ELSE SelectorLoop(Tail(selectors), doc, content)

\* faulty variant: a document without paragraphs loses its content too
ParagraphStep_Unguarded(doc, content) ==
    IF TextLen(content) < ParagraphsBelow
    THEN SelectSeq(doc.paragraphs, LAMBDA p : p.len > ParagraphMin)
    ELSE content

\* if len(content.strip()) < 100: the texts of the paragraphs longer than
\* 20 characters, joined, if the document has a paragraph at all
ParagraphStep(doc, content) ==
    IF TextLen(content) < ParagraphsBelow /\ doc.paragraphs # <<>>
    THEN SelectSeq(doc.paragraphs, LAMBDA p : p.len > ParagraphMin)
    ELSE content

\* the whole text of the body, or of the document when it has no body
WholeText(doc) == IF doc.body THEN <<Word("body", 300)>> ELSE <<Word("document", 300)>>

\* if len(content.strip()) < 50: the whole text
BodyStep(doc, content) ==
    IF TextLen(content) < BodyBelow THEN WholeText(doc) ELSE content

\* the content of the record: trafilatura's text if it is long enough,
\* otherwise what selectors, paragraphs and body give
Content(doc) ==
    IF doc.primary > PrimaryThreshold
    THEN <<Word("trafilatura", doc.primary)>>
    ELSE BodyStep(doc, ParagraphStep(doc, SelectorLoop(content_selectors, doc, <<>>)))

\* the elements of the documents
MainLong     == Element("main", <<Node(0, "main", 200, 0)>>)
MainAiry     == Element("main", <<Node(2, "m1", 4, 2), Node(3, "", 0, 0),
                                  Node(2, "m2", 4, 2)>>)
ArticleShort == Element("article", <<Node(0, "article", 40, 0)>>)
ArticleDense == Element("article", <<Node(0, "dense", 10, 0)>>)
ArticleAiry  == Element("article", <<Node(6, "airy", 8, 6)>>)
ContentMid   == Element(".content", <<Node(0, "content", 80, 0)>>)

ElementMenu ==
    {MainLong, MainAiry, ArticleShort, ArticleDense, ArticleAiry, ContentMid}

ElementLists ==
    {q \in UNION {[1..n -> ElementMenu] : n \in 0..MaxElements} :
        \A i, j \in 1..Len(q) : q[i] = q[j] => i = j}

ParagraphLists ==
    {<<>>,
     <<Word("p1", 20)>>,
     <<Word("p1", 21)>>,
     <<Word("p1", 30), Word("p2", 10), Word("p3", 30)>>,
     <<Word("p1", 21), Word("p2", 22), Word("p3", 23), Word("p4", 24), Word("p5", 25)>>}

Documents ==
    [primary : {0, PrimaryThreshold, PrimaryThreshold + 1},
     elements : ElementLists, paragraphs : ParagraphLists, body : BOOLEAN]

ExtractInit ==
    /\ mode = "extract"
    /\ site = "cycle"
    /\ base_url = Root
    /\ current_url = Root
    /\ max_pages = 1
    /\ visited_urls = {}
    /\ urls_to_visit = <<>>
    /\ scraped_data = <<>>
    /\ envelopes = <<>>
    /\ pc = "idle"
    /\ gets = <<>>
    /\ claimed = <<>>
    /\ linkCalls = <<>>
    /\ consumer = "listening"
    /\ scrapers = <<>>
    /\ running = <<>>
    /\ oracle = [down |-> {}, rank |-> <<>>]
    /\ result = <<>>
    /\ document \in Documents

\* extract_content(html_content, url): the result holds the content of the
\* record and, when the selectors were tried, the content they gave; if
\* anything raises, the content is the error text
Extract_Content ==
    /\ mode = "extract" /\ pc = "idle"
    /\ \E raises \in BOOLEAN :
          result' =
              IF raises
              THEN [raised |-> TRUE, main_content |-> <<>>,
                    content |-> <<Word("Error extracting content", 0)>>]
              ELSE [raised |-> FALSE,
                    main_content |-> SelectorLoop(content_selectors, document, <<>>),
                    content |-> Content(document)]
    /\ pc' = "extract_content"
    /\ UNCHANGED <<Request, Pair, consumer, visited_urls, urls_to_visit,
                   scraped_data, envelopes, current_url, gets, claimed, linkCalls,
                   document>>

ExtractNext == Extract_Content

ExtractSpec == ExtractInit /\ [][ExtractNext]_vars

---------------------------------------------------------------------------
(* Vocabulary of the properties.                                           *)

Range(q) == {q[i] : i \in 1..Len(q)}

Crawls == {"batch", "stream", "unlimited"}

Streams == {"stream", "unlimited"}

\* a crawl with a page budget in its loop test
BudgetLimited == mode \in {"batch", "stream"}

\* the identity of a page: the enhanced-normalized form of its URL
PageOf(u) == normalize_url_for_deduplication(u)

TransportErrorRecord(rec) == rec.content \in {"Request error", "Unexpected error"}

NonHtmlRecord(rec) == rec.title = "Non-HTML Content"

\* the in-scope links of the page at u, as the frontier would hold them
OutLinks(s, u) ==
    {normalize_url(h.url) :
        h \in {g \in Range(Body(s, u)) : g.kind = "url" /\ is_same_domain(g.url, Domain)}}

RECURSIVE Reach(_, _)
Reach(s, found) ==
    LET next == found \cup UNION {OutLinks(s, u) : u \in found}
    IN  IF next = found THEN found ELSE Reach(s, next)

\* the pages of the site reachable from the seed over in-scope links
ReachablePages(s) == {PageOf(u) : u \in Reach(s, {normalize_url(base_url)})}

\* every request of the crawl so far was answered 200 text/html and every
\* extraction succeeded
AllFetchesHtml ==
    /\ \A i \in 1..Len(scraped_data) : scraped_data[i].content = "Text"
    /\ Range(linkCalls) = Range(claimed)

---------------------------------------------------------------------------
(* C1 -- C10.                                                              *)

\* C1: in every crawl entry point the transport GET is issued for a URL at
\* most once during one crawl.
C1_EachUrlRequestedAtMostOnce ==
    mode \in Crawls =>
        \A i, j \in 1..Len(gets) : gets[i] = gets[j] => i = j

\* C2: no two page records emitted by one crawl have source_urls with the
\* same enhanced-normalized form.
C2_NoTwoRecordsOfOneEnhancedForm ==
    mode \in Crawls =>
        \A i, j \in 1..Len(scraped_data) :
            PageOf(scraped_data[i].source_url) = PageOf(scraped_data[j].source_url)
                => i = j

\* C3: in a budget-limited crawl with budget N the number of records
\* emitted is at most N at every point, and no transport request is
\* issued once N records have been emitted.
C3_BudgetBoundsRecordsAndRequests ==
    [][BudgetLimited =>
          /\ Len(scraped_data') <= max_pages
          /\ (Len(scraped_data) >= max_pages => gets' = gets)]_vars

\* C4: on a finite site, cycles included, with a budget of at least the
\* number of reachable in-scope pages and every fetch succeeding, the crawl
\* ends with exactly one record per reachable page: every reachable page
\* has a record and no page has two.
C4_OneRecordPerReachablePage ==
    (/\ mode \in Crawls
     /\ pc = "done"
     /\ AllFetchesHtml
     /\ max_pages >= Cardinality(ReachablePages(site)))
    => /\ {PageOf(scraped_data[i].source_url) : i \in 1..Len(scraped_data)}
            = ReachablePages(site)
       /\ \A i, j \in 1..Len(scraped_data) :
             PageOf(scraped_data[i].source_url) = PageOf(scraped_data[j].source_url)
                => i = j

\* the URLs a frontier of the model can hold
KnownUrls == {Root, RootBare, PB, PBtrack, PC, PCup, PD, PE, PF}

Terminated == pc \in {"done", "cancelled", "aborted", "http_500"}

BudgetReached == BudgetLimited /\ Len(scraped_data) >= max_pages

InFrontier(v) == \E i \in 1..Len(urls_to_visit) : urls_to_visit[i] = v

\* the record emitted last is the current URL's and reports a transport error
ErrorJustRecorded ==
    /\ scraped_data # <<>>
    /\ TransportErrorRecord(scraped_data[Len(scraped_data)])
    /\ scraped_data[Len(scraped_data)].source_url = current_url

\* the unlimited stream dropped v at dequeue because its enhanced form
\* had been visited
SkippedAsVisited(v) ==
    mode = "unlimited" /\ ~InFrontier(v) /\ PageOf(v) \in visited_urls

\* C5: every crawl over a site of finitely many URLs reaches a terminal
\* state (frontier empty, budget reached, or the stream's consumer gone),
\* in the batch crawl, the bounded stream and the unlimited stream alike.
C5_CrawlTerminates ==
    (mode \in Crawls) => <>Terminated

\* C5 witness: a crawl of the cyclic site has ended after scraping its
\* three pages and reading the links of each, the link back to the seed
\* included.
C5_Witness ==
    /\ mode \in Crawls /\ pc = "done" /\ site = "cycle"
    /\ Len(claimed) = 3 /\ Len(linkCalls) = 3

\* C6: a crawl with page budget 1 emits exactly one record and does no
\* link discovery: once the seed's record is emitted no transport request
\* is made and extract_links is not called.
C6_BudgetOneNoLinkDiscovery ==
    [][max_pages = 1 =>
          /\ (pc' = "done" => Len(scraped_data') = 1)
          /\ (Len(scraped_data) >= 1 => gets' = gets /\ linkCalls' = linkCalls)]_vars

C8_OneRecordPerClaimedUrl ==
    mode \in Crawls =>
        /\ Len(scraped_data) = Len(claimed)
        /\ \A i \in 1..Len(scraped_data) : scraped_data[i].source_url = claimed[i]
        /\ \A u \in KnownUrls, r \in Responses, x \in BOOLEAN :
              LET rec == scrape_page(u, r, x)
              IN  /\ rec # NoRecord
                  /\ rec.source_url = u
                  /\ (r.raises # "none" \/ r.status >= 400) => TransportErrorRecord(rec)
                  /\ (r.raises = "none" /\ r.status < 400 /\ r.html /\ x)
                        => rec.content = "Error extracting content"

\* C8 witness: one crawl has emitted a transport-error record, a non-HTML
\* record and an extraction-error record.
C8_Witness ==
    /\ mode \in Crawls
    /\ \E i, j, k \in 1..Len(scraped_data) :
          /\ TransportErrorRecord(scraped_data[i])
          /\ NonHtmlRecord(scraped_data[j])
          /\ scraped_data[k].content = "Error extracting content"

\* C9: link discovery happens only for a page whose record came from a
\* successful HTML fetch: extract_links is never called for a page whose
\* record is the non-HTML placeholder or a transport-error record.
C9_LinksOnlyAfterHtmlRecord ==
    mode \in Crawls =>
        \A i \in 1..Len(scraped_data) :
            (TransportErrorRecord(scraped_data[i]) \/ NonHtmlRecord(scraped_data[i]))
                => scraped_data[i].source_url \notin Range(linkCalls)

\* the source_urls of the page events of a stream, in order
PageUrls(es) ==
    LET pages == SelectSeq(es, LAMBDA e : e.type = "page")
    IN  [i \in 1..Len(pages) |-> pages[i].url]

\* C10: the events of a stream that is not aborted or cancelled are one
\* start event first, then the page events (one per record, in order; the
\* unlimited stream may put progress events between them), then one
\* complete event, and nothing after it.
C10_EnvelopeOrder ==
    mode \in Streams =>
        LET n == Len(envelopes)
        IN  /\ pc # "idle" => n >= 1 /\ envelopes[1].type = "start"
            /\ \A i \in 2..n : envelopes[i].type # "start"
            /\ \A i \in 1..n :
                  /\ envelopes[i].type \in {"start", "page", "progress", "complete", "error"}
                  /\ envelopes[i].type = "complete" => i = n /\ pc = "done"
                  /\ envelopes[i].type = "error" => i = n /\ pc = "aborted"
            /\ pc = "done" => n >= 2 /\ envelopes[n].type = "complete"
            /\ PageUrls(envelopes) = [i \in 1..Len(scraped_data) |-> scraped_data[i].source_url]

\* C10 witness: a bounded stream has ended with start, two page events
\* and complete.
C10_Witness ==
    /\ mode = "stream" /\ pc = "done"
    /\ Len(envelopes) = 4
    /\ Len(PageUrls(envelopes)) = 2

---------------------------------------------------------------------------
(* C11 -- C20.                                                             *)

\* the source_urls of a sequence of records, in order
SourceUrls(recs) == [i \in 1..Len(recs) |-> recs[i].source_url]

\* C11: when the engine fails after k records, the records are not lost:
\* a stream has sent start, the k page events, then exactly one error event
\* and no complete event; the batch endpoint still returns the k records to
\* its caller.
C11_FaultKeepsRecords ==
    /\ (mode \in Streams /\ pc = "aborted") =>
          LET n == Len(envelopes)
          IN  /\ n >= 2
              /\ envelopes[1].type = "start"
              /\ envelopes[n].type = "error"
              /\ \A i \in 2..(n - 1) : envelopes[i].type \in {"page", "progress"}
              /\ PageUrls(envelopes) = SourceUrls(scraped_data)
    /\ (mode = "batch" /\ pc = "http_500") => Returned = scraped_data

\* the link distance of u from the seed on site s: the number of in-scope
\* links on a shortest path (more than the number of URLs if there is none)
RECURSIVE DistFrom(_, _, _, _)
DistFrom(s, layer, seen, u) ==
    IF u \in layer THEN 0
    ELSE LET next == UNION {OutLinks(s, w) : w \in layer} \ seen
         IN  IF next = {} THEN Cardinality(KnownUrls) + 1
             ELSE 1 + DistFrom(s, next, seen \cup next, u)

Dist(s, u) == DistFrom(s, {normalize_url(base_url)}, {normalize_url(base_url)}, u)

\* a step takes the head of the frontier, and a URL it claims is that head
TakesHead ==
    /\ urls_to_visit # <<>>
    /\ urls_to_visit' = Tail(urls_to_visit)
    /\ claimed' = claimed \/ claimed' = Append(claimed, Head(urls_to_visit))

\* a step leaves the frontier as it is or adds to its tail, and claims nothing
AddsAtTail ==
    /\ Len(urls_to_visit') >= Len(urls_to_visit)
    /\ SubSeq(urls_to_visit', 1, Len(urls_to_visit)) = urls_to_visit
    /\ claimed' = claimed

\* the frontier is first in, first out, and the records are those of the
\* claimed URLs in the order they were claimed
FifoStep ==
    /\ TakesHead \/ AddsAtTail
    /\ SourceUrls(scraped_data') = claimed'

\* link discovery has run for every page emitted before the j-th
DiscoveredBefore(j) ==
    \A k \in 1..(j - 1) : scraped_data[k].source_url \in Range(linkCalls)

\* the first record is the seed's
SeedFirst ==
    scraped_data # <<>> => scraped_data[1].source_url = normalize_url(base_url)

Corresponding(a, b) ==
    /\ a.mode = "batch"
    /\ \/ b.mode = "stream" /\ b.max_pages = a.max_pages
       \/ b.mode = "unlimited" /\ a.max_pages = UnlimitedBudget

\* C13: for the same seed, site, transport outcomes and link order, the
\* source_urls of the records the batch crawl returns are, in order, those
\* of the page events of the corresponding stream (generate_stream with
\* the same budget; generate_unlimited_stream for the unlimited budget).
C13_BatchEqualsStream ==
    mode = "pair" =>
        \A a, b \in 1..2 :
            (/\ Corresponding(running[a], running[b])
             /\ ~LoopGuard(running[a])
             /\ ~LoopGuard(running[b]))
            => SourceUrls(running[a].scraped_data) = SourceUrls(running[b].scraped_data)

\* C14: once the consumer of a stream is gone, a transport request is
\* issued only by the iteration that is running, up to its next suspension
\* point (the yield of an event or the pacing sleep); a generator that is
\* at a suspension point issues none and does nothing but end.
C14_NoRequestOnceConsumerGone ==
    [][(mode \in Streams /\ consumer = "gone") =>
          (/\ gets' # gets => pc = "loop" /\ pc' \in SuspensionPoints
           /\ pc \in SuspensionPoints => pc' = "cancelled" /\ gets' = gets
           /\ pc = "cancelled" => pc' = "cancelled")]_vars

\* C14 witness: the consumer is gone and the stream has ended at the
\* yield of a page event, after three requests and with URLs left in the
\* frontier.
C14_Witness ==
    /\ mode \in Streams /\ consumer = "gone" /\ pc = "cancelled"
    /\ urls_to_visit # <<>>
    /\ Len(gets) = 3
    /\ envelopes[Len(envelopes)].type = "page"

\* C16: in both unlimited entry points (scrape_all_pages over
\* crawl_website, and generate_unlimited_stream) the number of pages
\* emitted never exceeds the budget the scraper is constructed with, also
\* on a site with more reachable pages than that budget.
C16_UnlimitedCrawlBounded ==
    mode \in {"batch", "unlimited"} => Len(scraped_data) <= max_pages

\* crawl i after k iterations of its loop when no other request is served
RECURSIVE Alone(_, _)
Alone(c, k) ==
    IF k = 0
    THEN [crawl |-> [c EXCEPT !.urls_to_visit = <<normalize_url(Root)>>,
                              !.scraped_data = <<>>, !.steps = 0],
          visited |-> WebScraper.visited_urls]
    ELSE LET before == Alone(c, k - 1)
         IN  Iteration(before.crawl, before.visited)

\* C15: two crawls served together, their iterations interleaved in any
\* order, each have the visited set, the frontier and the records they
\* have when they run alone: what one crawl has visited is not visited
\* for the other.
C15_CrawlsIsolated ==
    mode = "pair" =>
        \A i \in 1..2 :
            LET alone == Alone(running[i], running[i].steps)
            IN  /\ running[i].urls_to_visit = alone.crawl.urls_to_visit
                /\ running[i].scraped_data = alone.crawl.scraped_data
                /\ scrapers[running[i].scraper].visited_urls = alone.visited

\* C15 witness: both crawls have run two iterations or more, and one has
\* visited a URL the other has not.
C15_Witness ==
    /\ mode = "pair"
    /\ running[1].steps >= 2 /\ running[2].steps >= 2
    /\ scrapers[running[1].scraper].visited_urls
          # scrapers[running[2].scraper].visited_urls

\* q with the pair p put in at position i
InsertAt(q, i, p) == SubSeq(q, 1, i - 1) \o <<p>> \o SubSeq(q, i, Len(q))

\* the URLs that differ from u only by the fragment, by one more trailing
\* slash on the path, or by one more tracking parameter of the denylist
\* anywhere in the query
Variants(u) ==
    {[u EXCEPT !.frag = f] : f \in {"", "f", "g"}}
    \cup {[u EXCEPT !.path = Append(u.path, "/")]}
    \cup {[u EXCEPT !.query = InsertAt(u.query, i, <<k, v>>)] :
            i \in 1..(Len(u.query) + 1), k \in tracking_params, v \in {"x", ""}}

\* C17: URLs that differ only by fragment, by a trailing slash on the path
\* or by the presence of a tracking parameter of the denylist have the same
\* enhanced form; https://ex.com/a/?utm_source=x#frag and https://EX.com/a
\* both give https://ex.com/a. (A string urlparse rejects is no URL.)
C17_VariantsHaveOneEnhancedForm ==
    /\ (/\ mode = "url"
        /\ pc = "normalize_url_for_deduplication"
        /\ ~UrlparseRaises(current_url))
       => \A v \in Variants(current_url) :
             normalize_url_for_deduplication(v) = result
    /\ LET a == <<"/", "a">>
       IN  /\ normalize_url_for_deduplication(
                 [scheme |-> "https", host |-> Ex, path |-> a \o <<"/">>,
                  query |-> << <<"utm_source", "x">> >>, frag |-> "frag"])
                = Url(Ex, a, <<>>)
           /\ normalize_url_for_deduplication(Url(<<"EX", "com">>, a, <<>>))
                = Url(Ex, a, <<>>)

\* C17 witness: the enhanced form of https://ex.com/a/?id=1&utm_source=1#f
\* was computed and is https://ex.com/a?id=1.
C17_Witness ==
    /\ mode = "url" /\ pc = "normalize_url_for_deduplication"
    /\ current_url = [scheme |-> "https", host |-> Ex, path |-> <<"/", "a", "/">>,
                      query |-> << <<"id", "1">>, <<"utm_source", "1">> >>,
                      frag |-> "f"]
    /\ result = Url(Ex, <<"/", "a">>, << <<"id", "1">> >>)

\* the netloc d without a leading "www."
StripLeadingWww(d) == IF d # <<>> /\ d[1] = "www" THEN Tail(d) ELSE d

\* C18: is_same_domain(url) is true exactly when the host of the URL is
\* the target domain, the target domain with "www." put before it, or the
\* target domain with a leading "www." taken off; it is false for every
\* other host and false, without raising, for a malformed URL.
C18_SameDomainExactly ==
    (mode = "url" /\ pc = "is_same_domain") =>
        result = (/\ ~UrlparseRaises(current_url)
                  /\ \/ current_url.host = Domain
                     \/ current_url.host = <<"www">> \o Domain
                     \/ current_url.host = StripLeadingWww(Domain))

\* the seed as the frontier holds it
Seed == normalize_url(base_url)

\* the frontier forms of the hrefs of page u that are links to follow
ProperLinks(s, u) ==
    {normalize_url(h.url) : h \in {g \in Range(Body(s, u)) : g.kind = "url"}}

\* u is in scope of the target domain: its host is one of the three
\* is_same_domain accepts
InScope(u) ==
    u.host \in {Domain, <<"www">> \o Domain, StripWww(Domain)}

\* C19: every frontier URL other than the seed is in scope of the target
\* domain, and so is every URL requested; no mailto:, tel:, empty or
\* #-only href becomes a frontier entry: a frontier entry other than the
\* seed is a link of some page of the site, and extract_links returns
\* nothing else.
C19_FrontierInScope ==
    mode \in Crawls =>
        /\ \A i \in 1..Len(urls_to_visit) :
              \/ urls_to_visit[i] = Seed
              \/ /\ InScope(urls_to_visit[i])
                 /\ urls_to_visit[i].scheme \notin {"mailto", "tel"}
                 /\ \E u \in DOMAIN Sites[site] : urls_to_visit[i] \in ProperLinks(site, u)
        /\ \A i \in 1..Len(gets) :
              gets[i] = Seed \/ InScope(gets[i])
        /\ \A u \in DOMAIN Sites[site] :
              extract_links(Body(site, u), Domain, {}) \subseteq ProperLinks(site, u)

\* C19 witness: the links of a page with a mailto: href and a link to
\* another site were read, and the frontier holds a URL that is not the
\* seed.
C19_Witness ==
    /\ mode \in Crawls /\ site = "track"
    /\ Root \in Range(linkCalls)
    /\ \E i \in 1..Len(urls_to_visit) : urls_to_visit[i] # Seed

\* q without the later occurrences of its entries
RECURSIVE FirstOccurrences(_)
FirstOccurrences(q) ==
    IF q = <<>> THEN <<>>
    ELSE <<Head(q)>> \o FirstOccurrences(SelectSeq(Tail(q), LAMBDA e : e # Head(q)))

\* the links extract_links keeps of a page, in the order in which they
\* first occur in the page
DocumentOrder(html_content, domain, visited) ==
    LET kept == SelectSeq(html_content,
                    LAMBDA h : /\ h.kind = "url"
                               /\ is_same_domain(h.url, domain)
                               /\ ~is_duplicate_url(h.url, visited))
    IN  FirstOccurrences([i \in 1..Len(kept) |-> normalize_url(kept[i].url)])

\* C20: the links discovered on a page are appended to the tail of the
\* frontier in the order in which they first occur in the page, duplicates
\* within the page collapsed to the first occurrence.
C20_LinksAppendedInDocumentOrder ==
    [][(mode \in Crawls /\ linkCalls' # linkCalls) =>
          urls_to_visit' =
              AppendNew(urls_to_visit,
                        DocumentOrder(Body(site, current_url), Domain, visited_urls),
                        visited_urls)]_vars

---------------------------------------------------------------------------
(* C21 -- C30.                                                             *)

\* the URLs written like u but for the case of scheme, host and query, the
\* path and the fragment
SameButFor(u) ==
    [scheme : {"https", "HTTPS"}, host : {u.host, LowerSeq(u.host)},
     path : UrlPaths, query : {u.query, LowerQuery(u.query)}, frag : {"", "f"}]

NotTracking(q) == SelectSeq(q, LAMBDA p : Lower(p[1]) \notin tracking_params)

\* C22: normalize_url_for_deduplication removes exactly the denylisted
\* tracking parameters from the query: every other parameter occurrence,
\* repeated keys and empty values included, is in the output, in the
\* relative order of the input (letter case apart).
C22_OnlyTrackingParametersRemoved ==
    (/\ mode = "url"
     /\ pc = "normalize_url_for_deduplication"
     /\ ~UrlparseRaises(current_url))
    => result.query = NotTracking(LowerQuery(current_url.query))

\* C23: the enhanced form lower-cases only the scheme and the host: the
\* path (trailing slashes apart) and the values of the remaining query
\* parameters are as written, so that /A and /a keep distinct forms.
C23_PathAndValuesKeepCase ==
    (/\ mode = "url"
     /\ pc = "normalize_url_for_deduplication"
     /\ ~UrlparseRaises(current_url))
    => /\ result.path = RStripSlash(current_url.path)
       /\ \A i \in 1..Len(result.query) :
             \E j \in 1..Len(current_url.query) :
                result.query[i][2] = current_url.query[j][2]

\* the record is one extract_content returned
FromExtraction(rec) == rec.content \in {"Text", "Error extracting content"}

\* the response has a 2xx status
Is2xx(r) == r.raises = "none" /\ r.status >= 200 /\ r.status < 300

\* C24: scrape_page gives a transport-error record (empty title, the
\* request error as content) for a network failure and for every non-2xx
\* status, the non-HTML record for a 2xx response without text/html in its
\* content-type, and passes only a 2xx text/html response to
\* extract_content.
C24_ResponseClassification ==
    (mode = "page" /\ pc = "scrape_page") =>
        LET r == result.response
            rec == result.page_data
        IN  /\ (r.raises = "request" \/ (r.raises = "none" /\ ~Is2xx(r)))
                  => rec.content = "Request error" /\ rec.title = ""
            /\ (Is2xx(r) /\ ~r.html) => NonHtmlRecord(rec)
            /\ FromExtraction(rec) => Is2xx(r) /\ r.html

\* the frontier holds no URL twice and no URL of the visited set
FrontierFresh ==
    /\ \A i, j \in 1..Len(urls_to_visit) :
          urls_to_visit[i] = urls_to_visit[j] => i = j
    /\ \A i \in 1..Len(urls_to_visit) : urls_to_visit[i] \notin visited_urls

\* the step is an iteration that takes the `continue` of the visited test:
\* the head of the frontier is removed and nothing is claimed
SkipsHead ==
    /\ pc = "loop" /\ pc' = "loop"
    /\ urls_to_visit # <<>>
    /\ urls_to_visit' = Tail(urls_to_visit)
    /\ claimed' = claimed

NoUrlQueuedTwice ==
    \A i, j \in 1..Len(urls_to_visit) :
        urls_to_visit[i] = urls_to_visit[j] => i = j

\* what the step adds to the frontier is neither in the visited set nor
\* in the frontier before the step
AppendsOnlyNew ==
    \A i \in (Len(urls_to_visit) + 1)..Len(urls_to_visit') :
        /\ urls_to_visit'[i] \notin visited_urls'
        /\ urls_to_visit'[i] \notin Range(urls_to_visit)

C26_NotRestartable ==
    (mode = "batch" /\ result # <<>>) =>
        /\ Len(gets) = result[1].requests
        /\ scraped_data = <<>>
        /\ \A k \in 2..Len(result) : result[k].returned = <<>>

\* C26 witness: a first call ended by its budget with URLs left in the
\* frontier, and a second and a third call have returned.
C26_Witness ==
    /\ mode = "batch" /\ pc = "done"
    /\ Len(result) = MaxCalls
    /\ Len(result[1].returned) = max_pages
    /\ result[1].requests > 0

\* the page events among the first n events of the stream
PagesAmong(n) == SelectSeq(SubSeq(envelopes, 1, n), LAMBDA e : e.type = "page")

\* C27: in a stream the i-th page event carries the count i, and the
\* complete event carries as total_pages the number of page events sent
\* before it.
C27_ProgressCounterExact ==
    mode \in Streams =>
        /\ \A i \in 1..Len(PagesAmong(Len(envelopes))) :
              PagesAmong(Len(envelopes))[i].count = i
        /\ \A j \in 1..Len(envelopes) :
              envelopes[j].type = "complete"
                  => envelopes[j].count = Len(PagesAmong(j - 1))

\* C27 witness: a stream has ended with three page events, one of them
\* for a page that came back with a transport error, and total_pages 3.
C27_Witness ==
    /\ mode \in Streams /\ pc = "done"
    /\ Len(PagesAmong(Len(envelopes))) = 3
    /\ envelopes[Len(envelopes)].type = "complete"
    /\ envelopes[Len(envelopes)].count = 3
    /\ \E i \in 1..Len(scraped_data) : TransportErrorRecord(scraped_data[i])

\* the largest number of a set of numbers that is not empty
Max(S) == CHOOSE m \in S : \A x \in S : x <= m

\* the selectors were tried on the document
SelectorsTried ==
    /\ mode = "extract" /\ pc = "extract_content"
    /\ ~result.raised
    /\ document.primary <= PrimaryThreshold

\* C28: when the primary extraction is unavailable or below its threshold,
\* the selector step gives the text of the element with the longest
\* extracted text among all elements a selector matches, whatever the
\* order of the selectors.
C28_LongestElementSelected ==
    (SelectorsTried /\ document.elements # <<>>) =>
        TextLen(result.main_content)
            = Max({TextLen(GetText(document.elements[i].nodes)) :
                      i \in 1..Len(document.elements)})

\* the texts of the paragraphs of the document that are longer than 20
\* characters, in document order
LongParagraphs == SelectSeq(document.paragraphs, LAMBDA p : p.len > ParagraphMin)

FiveParagraphs ==
    <<Word("p1", 21), Word("p2", 22), Word("p3", 23), Word("p4", 24), Word("p5", 25)>>

\* C29 (as stated): when the text of the best selector candidate is under 100
\* characters the content becomes the paragraphs of over 20 characters, in
\* document order, and only if the content is then still under 50
\* characters it is replaced by the whole text of the body (of the
\* document if there is no body); no selector match and five paragraphs
\* of over 20 characters give those five paragraphs in order.
C29_ParagraphsThenBody ==
    SelectorsTried =>
        LET aggregated == IF TextLen(result.main_content) < ParagraphsBelow
                          THEN LongParagraphs
                          ELSE result.main_content
        IN  /\ result.content =
                  IF TextLen(aggregated) < BodyBelow
                  THEN WholeText(document)
                  ELSE aggregated
            /\ (document.elements = <<>> /\ document.paragraphs = FiveParagraphs)
                  => result.content = FiveParagraphs

\* C29 (amended): as above, the paragraphs replacing the content only if
\* the document has a paragraph element at all; without one the text of
\* the selector candidate stays, and is replaced by the whole text only if
\* it is under 50 characters.
C29_ParagraphsIfAnyThenBody ==
    SelectorsTried =>
        LET aggregated == IF /\ TextLen(result.main_content) < ParagraphsBelow
                             /\ document.paragraphs # <<>>
                          THEN LongParagraphs
                          ELSE result.main_content
        IN  /\ result.content =
                  IF TextLen(aggregated) < BodyBelow
                  THEN WholeText(document)
                  ELSE aggregated
            /\ (document.elements = <<>> /\ document.paragraphs = FiveParagraphs)
                  => result.content = FiveParagraphs

\* C29 witness: the selectors gave an article of 40 characters, the
\* document has five paragraphs of over 20 characters, and the content is
\* those five paragraphs.
C29_Witness ==
    /\ SelectorsTried
    /\ result.main_content = <<Word("article", 40)>>
    /\ document.paragraphs = FiveParagraphs
    /\ result.content = FiveParagraphs

\* the URLs a page of the model can link to
LinkedUrls == KnownUrls \cup {PBslash, PBfrag}

\* the pages marked visited so far
VisitedPages == {PageOf(u) : u \in Range(claimed)}

\* C30: in every crawl entry point, once a URL u is marked visited,
\* is_duplicate_url is true of u and of every URL with the enhanced form
\* of u (a seed with the path / and URLs with upper-case letters
\* included), and extract_links returns no link to a visited page.
C30_DuplicateCheckAgreesWithVisited ==
    mode \in Crawls =>
        /\ \A v \in LinkedUrls :
              PageOf(v) \in VisitedPages => is_duplicate_url(v, visited_urls)
        /\ \A p \in DOMAIN Sites[site] :
              \A w \in extract_links(Body(site, p), Domain, visited_urls) :
                  PageOf(w) \notin VisitedPages

=============================================================================
